---- MODULE Spec2Model ----
(***************************************************************************)
(* Model of the form-submission workflow of the mail-API repository:       *)
(* MailController -> MailService.procesarRegistroEmpresa /                 *)
(* procesarSolicitudKyc -> uploadMultipleFiles -> insert ->                *)
(* EmailService.enviarEmailBienvenida.                                     *)
(*                                                                         *)
(* The repository holds several revisions of MailService.  The variable    *)
(* `variant` says which one is deployed:                                   *)
(*   "svc"  src/src/mail/mail.service.ts   (raw file names, no e-mail)     *)
(*   "p1"   src/unnamed/part_001           (sanitized names, no e-mail)    *)
(*   "p0"   src/unnamed/part_000 l.1-253   (sanitized names, e-mail)       *)
(*                                                                         *)
(* Strings that the code builds by concatenation (storage keys, URLs) are  *)
(* sequences of one-character strings; a form-field name or a fixed        *)
(* literal of the code is one element of such a sequence.                  *)
(*                                                                         *)
(* One action is one run of the Node event loop: the code from one         *)
(* external completion up to the next await that needs an external call.   *)
(***************************************************************************)
EXTENDS Integers, Sequences, FiniteSets, TLC

VARIABLES
    variant,    \* which revision of MailService is deployed
    apiKey,     \* whether SENDGRID_API_KEY was found by EmailService's constructor
    now,        \* the latest value Date.now() has returned; it never goes back
    pc,         \* pc[s]: where the processing of submission s stands
    req,        \* req[s]: the request (text fields and files) of submission s
    up,         \* up[s]: the storage upload calls of s, by <<group, item number>>
    caught,     \* caught[s]: the errors that reached the processor's catch block
    log,        \* log[s]: the lines written with logger.error / console.error
    ins,        \* ins[s]: the database insert calls of s, in order
    mail,       \* mail[s]: the sgMail.send calls of s, in order
    resp,       \* resp[s]: the HTTP responses given to the caller of s, in order
    objects,    \* the objects in storage: [bucket, key, by], by = <<s, slot>>
    table       \* the rows in the database: [table, id, row]

vars == <<variant, apiKey, now, pc, req, up, caught, log, ins, mail, resp, objects, table>>

----------------------------------------------------------------------------
(* Bounds *)

MaxSubs == 2        \* submissions processed by SpecConc
MaxFiles == 2       \* files of one submission, over all its groups
Clock0 == 9         \* Date.now() when the server starts
ClockSpan == 1      \* how far Date.now() advances while the server runs

MaxClock == Clock0 + ClockSpan
Subs == 1..MaxSubs

----------------------------------------------------------------------------
(* Program constants *)

CREATED == 201
INTERNAL_SERVER_ERROR == 500

Variants == {"svc", "p1", "p0"}
Forms == {"empresa", "kyc"}

\* FileFieldsInterceptor's field lists, two fields of each form.
FileFields(form) ==
    IF form = "empresa" THEN <<"organigrama", "estatuto_social">>
    ELSE <<"documento_identidad", "comprobante_domicilio_servicio">>

Range(q) == {q[i] : i \in 1..Len(q)}

bucketName(form) ==
    IF form = "empresa" THEN "registros-empresas" ELSE "kyc-documentos-usuarios"

tableName(form) ==
    IF form = "empresa" THEN "registros_market" ELSE "solicitudes_token"

----------------------------------------------------------------------------
(* Strings *)

Lower == {"a","b","c","d","e","f","g","h","i","j","k","l","m",
          "n","o","p","q","r","s","t","u","v","w","x","y","z"}
Upper == {"A","B","C","D","E","F","G","H","I","J","K","L","M",
          "N","O","P","Q","R","S","T","U","V","W","X","Y","Z"}
DigitChar == <<"0","1","2","3","4","5","6","7","8","9">>

\* The character class of the regular expression /[^a-zA-Z0-9.\-_]/g, complemented.
KeyChars == Lower \cup Upper \cup Range(DigitChar) \cup {".", "-", "_"}
KeyChar(c) == c \in KeyChars

\* String(n) for a non-negative integer, as template literals format it.
RECURSIVE NumberToString(_)
NumberToString(n) ==
    IF n < 10 THEN <<DigitChar[n + 1]>>
    ELSE NumberToString(n \div 10) \o <<DigitChar[(n % 10) + 1]>>

\* The replacement without the g flag: only the first match is replaced.
ReplaceFirstOnly(name) ==
    IF \A i \in 1..Len(name) : KeyChar(name[i]) THEN name
    ELSE LET k == CHOOSE i \in 1..Len(name) :
                    /\ ~KeyChar(name[i])
                    /\ \A j \in 1..(i - 1) : KeyChar(name[j])
         IN [i \in 1..Len(name) |-> IF i = k THEN "_" ELSE name[i]]
\* file.originalname.replace(/[^a-zA-Z0-9.\-_]/g, '_')
sanitizedFileName(name) ==
    [i \in 1..Len(name) |-> IF KeyChar(name[i]) THEN name[i] ELSE "_"]

Sanitizes == variant \in {"p1", "p0"}
SendsEmail == variant = "p0"

\* The path without the index.
NoIndexPath(fieldName, t, index, name) ==
    <<"public/", fieldName, "/">> \o NumberToString(t) \o <<"-">> \o name
\* `public/${fieldName}/${Date.now()}-${index}-${sanitizedFileName}`, and in "svc"
\* `public/${fieldName}/${Date.now()}-${index}-${file.originalname}`
filePath(fieldName, t, index, name) ==
    <<"public/", fieldName, "/">> \o NumberToString(t) \o <<"-">>
        \o NumberToString(index) \o <<"-">> \o name

\* storage.from(bucket).getPublicUrl(path).data.publicUrl
getPublicUrl(bucket, path) == <<"https://storage/", bucket, "/">> \o path
----------------------------------------------------------------------------
(* Requests *)

RECURSIVE SeqsUpTo(_, _)
SeqsUpTo(S, n) ==
    IF n = 0 THEN {<<>>}
    ELSE SeqsUpTo(S, n - 1) \cup {Append(q, x) : q \in [1..(n - 1) -> S], x \in S}

RECURSIVE SumLen(_, _, _)
SumLen(files, fields, k) ==
    IF k = 0 THEN 0 ELSE SumLen(files, fields, k - 1) + Len(files[fields[k]])

\* Original file names: digits, hyphens and dots like the ones a key is built
\* with, then two characters outside the class (a space and a path separator)
\* in one, and a character outside ASCII in the other.  Both are sanitized to
\* the same string.
SpacedName == <<"1", "-", "a", ".", "Z", " ", "/">>
AccentedName == <<"1", "-", "a", ".", "Z", "_", "ñ">>
FileNames == {SpacedName, AccentedName}

FileMaps(form) ==
    { m \in [Range(FileFields(form)) -> SeqsUpTo(FileNames, MaxFiles)] :
        SumLen(m, FileFields(form), Len(FileFields(form))) <= MaxFiles }

NoFiles(form) == [g \in Range(FileFields(form)) |-> <<>>]

\* A text field of the body: absent, or a string.
Undefined == [present |-> FALSE, value |-> ""]
Text(v) == [present |-> TRUE, value |-> v]
ConsentFields == {Undefined, Text("on"), Text("off"), Text("true")}

\* hasFiles = FALSE: the `files` argument is undefined (no multipart body).
Requests ==
    UNION { { [form |-> f, hasFiles |-> TRUE, files |-> m, fondos_licitos |-> c] :
                m \in FileMaps(f), c \in ConsentFields }
            \cup
            { [form |-> f, hasFiles |-> FALSE, files |-> NoFiles(f), fondos_licitos |-> c] :
                c \in ConsentFields }
          : f \in Forms }

\* The requests of the runs with several submissions: at most one file, one name.
SmallRequests ==
    { r \in Requests :
        /\ r.hasFiles
        /\ r.fondos_licitos = Text("on")
        /\ r.files[FileFields(r.form)[2]] = <<>>
        /\ r.files[FileFields(r.form)[1]] \in {<<>>, <<SpacedName>>} }

NoRequest == [form |-> "none"]

\* The upload calls of a request, <<group, item number>>; index = item number - 1.
Slots(r) ==
    UNION { {<<g, i>> : i \in 1..Len(r.files[g])} : g \in Range(FileFields(r.form)) }

\* The position of an upload call in the order the calls are issued:
\* Object.keys(files).map(...) over the groups, fileArray.map(...) inside each.
FieldNo(form, g) == CHOOSE k \in 1..Len(FileFields(form)) : FileFields(form)[k] = g
IssueNo(r, slot) ==
    SumLen(r.files, FileFields(r.form), FieldNo(r.form, slot[1]) - 1) + slot[2]

\* The values n successive Date.now() calls can return: time passes between
\* requests and between two calls of one synchronous run.
Clocks(n) ==
    { ts \in [1..n -> now..MaxClock] :
        \A i \in 1..n, j \in 1..n : i <= j => ts[i] <= ts[j] }
----------------------------------------------------------------------------
(* MailService.uploadMultipleFiles *)

\* An upload call ends with {data, error: null} ("ok"), with {data: null, error}
\* ("err"), or with neither data nor error ("nodata").
UploadOutcomes == {"ok", "err", "nodata"}

\* for (file of fileArray) await upload(...): the call of a file is not issued
\* before the call of the file before it has ended.
DeferredCall(r, slot, t) ==
    [name |-> r.files[slot[1]][slot[2]], sent |-> r.files[slot[1]][slot[2]], t |-> t,
     st |-> IF slot[2] = 1 THEN "inflight" ELSE "pending", end |-> 0,
     upsert |-> FALSE, key |-> <<>>]
\* fileArray.map((file, index) => ... upload(filePath, file.buffer,
\* { contentType: file.mimetype })): the call of one file.  No upsert option is
\* given.  `end` is, for a call that ended with data, its rank among the
\* calls of its group that ended with data, in the order they ended; 0 otherwise.
UploadCall(r, slot, t) ==
    LET name == r.files[slot[1]][slot[2]]
        used == IF Sanitizes THEN sanitizedFileName(name) ELSE name
    IN [name |-> name, sent |-> used, t |-> t, st |-> "inflight", end |-> 0,
        upsert |-> FALSE,
        key |-> filePath(slot[1], t, slot[2] - 1, used)]

\* The messages of the errors of the services called; the code never builds them.
StorageErrorMessage == "storage: upload refused"
DatabaseErrorMessage == "database: insert refused"
MailErrorStack == "sendgrid: send refused"
TypeErrorMessage == "TypeError: cannot read properties of null or undefined"

InternalServerErrorException(message) == [ise |-> TRUE, message |-> message]
TypeError == [ise |-> FALSE, message |-> <<TypeErrorMessage>>]

\* Promise.race(uploadPromises): the first call of group g to end is awaited.
FirstEnded(u, r, g) == \E i \in 1..Len(r.files[g]) : u[<<g, i>>].st # "inflight"
\* await Promise.all(uploadPromises) of group g has returned.
Settled(u, r, g) == \A i \in 1..Len(r.files[g]) : u[<<g, i>>].st # "inflight"

\* Only the first result is looked at.
FirstUploadError(u, r, g) == Len(r.files[g]) > 0 /\ u[<<g, 1>>].st = "err"
\* uploadResults.filter((result) => result.error), then uploadErrors.length > 0
HasUploadErrors(u, r, g) == \E i \in 1..Len(r.files[g]) : u[<<g, i>>].st = "err"

\* The URLs stand in the order in which their uploads ended, uploads without a
\* rank in the order of their files.
UrlsAsEnded(u, r, g, n) ==
    LET ok == { i \in 1..n : u[<<g, i>>].st = "ok" }
        before(j, i) == \/ u[<<g, j>>].end < u[<<g, i>>].end
                        \/ u[<<g, j>>].end = u[<<g, i>>].end /\ j <= i
    IN [p \in 1..Cardinality(ok) |->
            LET i == CHOOSE i \in ok : Cardinality({ j \in ok : before(j, i) }) = p
            IN getPublicUrl(bucketName(r.form), u[<<g, i>>].key)]
\* Each URL is put in front of the list (unshift).
UrlsReversed(u, r, g, n) ==
    [p \in 1..n |-> getPublicUrl(bucketName(r.form), u[<<g, n + 1 - p>>].key)]
\* Each URL is pushed to the list when its upload ends.
UrlsInCompletionOrder(u, r, g, n) ==
    LET ok == { i \in 1..n : u[<<g, i>>].st = "ok" }
        rank(i) == Cardinality({ j \in ok : u[<<g, j>>].end <= u[<<g, i>>].end })
    IN [p \in 1..Cardinality(ok) |->
            LET i == CHOOSE i \in ok : rank(i) = p
            IN getPublicUrl(bucketName(r.form), u[<<g, i>>].key)]
\* The map without the filter: a result without data leaves a null in the list.
UrlsWithNulls(u, r, g, n) ==
    [i \in 1..n |-> IF u[<<g, i>>].st = "ok"
                    THEN getPublicUrl(bucketName(r.form), u[<<g, i>>].key)
                    ELSE <<"null">>]
\* uploadResults.map(... getPublicUrl(result.data.path) ...).filter(url !== null);
\* in "svc" the map reads result.data.path of every result.
RECURSIVE PublicUrls(_, _, _, _)
PublicUrls(u, r, g, n) ==
    IF n = 0 THEN <<>>
    ELSE LET rest == PublicUrls(u, r, g, n - 1)
         IN IF u[<<g, n>>].st = "ok"
            THEN Append(rest, getPublicUrl(bucketName(r.form), u[<<g, n>>].key))
            ELSE rest

\* The exception names no field.
UnnamedUploadFailure(g) == InternalServerErrorException(<<"Fallo al subir archivos">>)
\* throw new InternalServerErrorException(`Fallo al subir archivos para: ${fieldName}`)
UploadFailure(g) == InternalServerErrorException(<<"Fallo al subir archivos para: ", g>>)

\* What the call uploadMultipleFiles(g, files[g], bucket) ends with, once settled.
uploadMultipleFiles(u, r, g) ==
    IF Len(r.files[g]) = 0 THEN [kind |-> "urls", urls |-> <<>>]
    ELSE IF HasUploadErrors(u, r, g)
    THEN [kind |-> "throw", error |-> UploadFailure(g)]
    ELSE IF ~Sanitizes /\ \E i \in 1..Len(r.files[g]) : u[<<g, i>>].st = "nodata"
    THEN [kind |-> "throw", error |-> TypeError]
    ELSE [kind |-> "urls", urls |-> PublicUrls(u, r, g, Len(r.files[g]))]

----------------------------------------------------------------------------
(* MailService.procesarRegistroEmpresa and procesarSolicitudKyc *)

\* The .then callback assigns without a test.
AssignsAlways(urls) == TRUE
\* The test urls.length > 1.
AssignsWhenSeveral(urls) == Len(urls) > 1
\* .then((urls) => { if (urls.length > 0) fileUrls[`${fieldName}_urls`] = urls })
ThenAssigns(urls) == Len(urls) > 0

\* fileUrls when the row is built: the entries the .then callbacks have assigned.
fileUrls(u, r) ==
    LET done == { g \in Range(FileFields(r.form)) :
                    /\ Settled(u, r, g)
                    /\ uploadMultipleFiles(u, r, g).kind = "urls"
                    /\ ThenAssigns(uploadMultipleFiles(u, r, g).urls) }
    IN [k \in {<<g, "_urls">> : g \in done} |-> uploadMultipleFiles(u, r, k[1]).urls]

\* uploadTasks is shared by the submissions in progress: Promise.all also waits
\* for the upload calls of the others.
SharedTasksDone(u, r) ==
    /\ \A g \in Range(FileFields(r.form)) : Settled(u, r, g)
    /\ Cardinality({ x \in Subs \X UNION { DOMAIN up[s] : s \in Subs } :
                        x[2] \in DOMAIN up[x[1]] /\ up[x[1]][x[2]].st = "inflight" })
          <= (IF DOMAIN u = {} THEN 0 ELSE 1)
\* Promise.race in the place of Promise.all: one task with files is over.
AnyTaskDone(u, r) ==
    \E g \in Range(FileFields(r.form)) : Len(r.files[g]) > 0 /\ Settled(u, r, g)
\* await Promise.all(uploadTasks) has returned: every task is fulfilled.
uploadTasksDone(u, r) == \A g \in Range(FileFields(r.form)) : Settled(u, r, g)

\* The coercion !!datos.fondos_licitos.
Truthy(field) == field.present /\ field.value # ""
\* fondos_licitos: datos.fondos_licitos === 'on'
fondos_licitos(field) == field.present /\ field.value = "on"

dataToInsert(r, u) ==
    [table |-> tableName(r.form),
     fondos_licitos |-> fondos_licitos(r.fondos_licitos),
     urls |-> fileUrls(u, r)]

\* throw error: the catch block rethrows whatever it caught.
Passes(form, e) == e
\* The catch blocks: procesarRegistroEmpresa rethrows an
\* InternalServerErrorException and wraps anything else; procesarSolicitudKyc
\* wraps everything.
Catch(form, e) ==
    IF form = "empresa"
    THEN IF e.ise THEN e
         ELSE InternalServerErrorException(<<"Error al procesar el registro.">>)
    ELSE InternalServerErrorException(
            <<"Ocurrió un error inesperado al procesar la solicitud.">>)

InsertFailure(form) ==
    IF form = "empresa"
    THEN InternalServerErrorException(
            <<"No se pudo guardar el registro en la base de datos.">>)
    ELSE InternalServerErrorException(
            <<"No se pudo guardar la solicitud en la base de datos.">>)

SuccessMessage(form) ==
    IF form = "empresa" THEN <<"Registro de empresa procesado con éxito!">>
    ELSE <<"Solicitud de onboarding recibida y guardada con éxito!">>

\* The returned object has the message only.
WithoutRow(form, saved) == [status |-> CREATED, message |-> SuccessMessage(form)]
\* Nest answers a thrown HttpException with its status and message, and a
\* returned value with @HttpCode(HttpStatus.CREATED).
ErrorResponse(e) == [status |-> INTERNAL_SERVER_ERROR, message |-> e.message]
SuccessResponse(form, saved) ==
    [status |-> CREATED, message |-> SuccessMessage(form), data |-> saved]

\* The first row of the table is read back, not the row just inserted.
FirstRowOfTable(s) ==
    IF table = {} THEN [id |-> s, row |-> ins[s][Len(ins[s])].row]
    ELSE LET t == CHOOSE t \in table : \A x \in table : t.id <= x.id
         IN [id |-> t.id, row |-> t.row]
\* data[0] of insert([dataToInsert]).select(): the row with its generated id.
savedData(s) == [id |-> s, row |-> ins[s][Len(ins[s])].row]

\* The insert's error is not looked at.
NeverThrows(out) == FALSE
\* if (error) { throw ... } after the insert
InsertError(out) == out = "err"

\* this.emailService.enviarEmailBienvenida(...) is called without await.
NotAwaited == FALSE
\* await this.emailService.enviarEmailBienvenida(...)
NotificationAwaited == TRUE

\* enviarEmailBienvenida without its try/catch.
Rethrows(out) == IF out = "fail" THEN "throws" ELSE "returns"
\* EmailService.enviarEmailBienvenida: try { await sgMail.send(msg) } catch { log }
enviarEmailBienvenida(out) == "returns"

\* uploadErrors.map((e) => e.error.message).join(', ')
RECURSIVE errorMessages(_, _, _, _)
errorMessages(u, r, g, n) ==
    IF n = 0 THEN <<>>
    ELSE LET rest == errorMessages(u, r, g, n - 1)
         IN IF u[<<g, n>>].st # "err" THEN rest
            ELSE IF rest = <<>> THEN <<StorageErrorMessage>>
            ELSE rest \o <<", ", StorageErrorMessage>>

\* The lines written with logger.error; error.stack begins with the message.
UploadErrorLine(u, r, g) ==
    <<"Error subiendo archivos para ", g, ": ">> \o errorMessages(u, r, g, Len(r.files[g]))
InsertErrorLine(form) ==
    IF form = "empresa"
    THEN <<"Error de Supabase al insertar registro: ", DatabaseErrorMessage>>
    ELSE <<"Error de Supabase al insertar solicitud KYC: ", DatabaseErrorMessage>>
CatchLine(form, e) ==
    IF form = "empresa" THEN <<"Error en procesarRegistroEmpresa:">> \o e.message
    ELSE <<"Error inesperado en procesarSolicitudKyc:">> \o e.message
MailErrorLine == <<"Fallo al enviar email de bienvenida a ", MailErrorStack>>

\* The catch block removes what the submission has uploaded.
RollsBack(s, objs) == { o \in objs : o.by[1] # s }
\* The catch blocks issue no storage call: the objects stay as they are.
Kept(s, objs) == objs

\* insert([dataToInsert]) is called twice.
InsertTwice(row) == <<[row |-> row, st |-> "inflight"], [row |-> row, st |-> "inflight"]>>
\* supabaseClient.from(table).insert([dataToInsert]).select(): the calls issued.
InsertCalls(row) == <<[row |-> row, st |-> "inflight"]>>
----------------------------------------------------------------------------
(* State *)

Init ==
    /\ variant \in Variants
    /\ apiKey \in (IF variant = "p0" THEN BOOLEAN ELSE {FALSE})
    /\ now = Clock0
    /\ pc = [s \in Subs |-> "idle"]
    /\ req = [s \in Subs |-> NoRequest]
    /\ up = [s \in Subs |-> <<>>]
    /\ caught = [s \in Subs |-> <<>>]
    /\ log = [s \in Subs |-> <<>>]
    /\ ins = [s \in Subs |-> <<>>]
    /\ mail = [s \in Subs |-> <<>>]
    /\ resp = [s \in Subs |-> <<>>]
    /\ objects = {}
    /\ table = {}

\* The catch block: error e, thrown at `stage` after the lines `lines` were
\* logged, is logged and the caller is answered with what the block throws.
Fail(s, form, stage, e, lines, objs) ==
    /\ caught' = [caught EXCEPT ![s] = Append(@, [stage |-> stage, error |-> e])]
    /\ log' = [log EXCEPT ![s] = @ \o lines \o <<CatchLine(form, e)>>]
    /\ objects' = Kept(s, objs)
    /\ resp' = [resp EXCEPT ![s] = Append(@, ErrorResponse(Catch(form, e)))]
    /\ pc' = [pc EXCEPT ![s] = "done"]

\* The code after `await Promise.all(uploadTasks)`: build the row, call insert.
CallInsert(s, r, u) ==
    /\ ins' = [ins EXCEPT ![s] = @ \o InsertCalls(dataToInsert(r, u))]
    /\ pc' = [pc EXCEPT ![s] = "insert"]

\* The controller hands request r to the service, which runs up to its first
\* await on an external call: every upload call of every group is issued, the
\* k-th with Date.now() = ts[k].
Procesar(s, r, ts) ==
    /\ pc[s] = "idle"
    /\ req' = [req EXCEPT ![s] = r]
    /\ IF ~r.hasFiles
       THEN \* Object.keys(undefined) throws a TypeError
            /\ Fail(s, r.form, "keys", TypeError, <<>>, objects)
            /\ UNCHANGED <<now, up, ins>>
       ELSE LET u == [slot \in Slots(r) |-> UploadCall(r, slot, ts[IssueNo(r, slot)])]
            IN /\ up' = [up EXCEPT ![s] = u]
               /\ now' = IF Len(ts) = 0 THEN now ELSE ts[Len(ts)]
               /\ IF uploadTasksDone(u, r)
                  THEN CallInsert(s, r, u) /\ UNCHANGED resp
                  ELSE /\ pc' = [pc EXCEPT ![s] = "uploads"]
                       /\ UNCHANGED <<ins, resp>>
               /\ UNCHANGED <<caught, log, objects>>
    /\ UNCHANGED <<variant, apiKey, mail, table>>

\* The upload call of one file ends with `out`; the code of its group runs on if
\* this was the group's last one, and the processor's if the group's task ended.
\* Storage writes an object under a key that exists only for a call with upsert.
UploadDone(s, slot, out) ==
    /\ pc[s] # "idle"
    /\ slot \in DOMAIN up[s]
    /\ up[s][slot].st = "inflight"
    /\ LET r == req[s]
           g == slot[1]
           ended == { x \in DOMAIN up[s] : x[1] = g /\ up[s][x].st = "ok" }
           u == [up[s] EXCEPT ![slot].st = out, ![slot].end = IF out = "ok" THEN Cardinality(ended) + 1 ELSE 0]
           same == { o \in objects : o.bucket = bucketName(r.form) /\ o.key = up[s][slot].key }
           objs == IF out = "ok"
                   THEN (objects \ same) \cup
                        {[bucket |-> bucketName(r.form), key |-> up[s][slot].key,
                          by |-> <<s, slot>>]}
                   ELSE objects
           lines == IF Settled(u, r, g) /\ HasUploadErrors(u, r, g)
                    THEN <<UploadErrorLine(u, r, g)>> ELSE <<>>
       IN /\ out = "ok" /\ ~up[s][slot].upsert => same = {}
          /\ up' = [up EXCEPT ![s] = u]
          /\ IF pc[s] = "uploads" /\ Settled(u, r, g)
             THEN IF uploadMultipleFiles(u, r, g).kind = "throw"
                  THEN /\ Fail(s, r.form, "uploads", uploadMultipleFiles(u, r, g).error,
                               lines, objs)
                       /\ UNCHANGED ins
                  ELSE /\ IF uploadTasksDone(u, r)
                          THEN CallInsert(s, r, u) /\ UNCHANGED resp
                          ELSE UNCHANGED <<pc, ins, resp>>
                       /\ objects' = objs
                       /\ UNCHANGED <<caught, log>>
             ELSE /\ objects' = objs
                  /\ log' = [log EXCEPT ![s] = @ \o lines]
                  /\ UNCHANGED <<pc, ins, resp, caught>>
    /\ UNCHANGED <<variant, apiKey, now, req, mail, table>>

\* The insert call ends; the processor answers, or calls the e-mail service.
InsertDone(s, out) ==
    /\ pc[s] = "insert"
    /\ ins' = [ins EXCEPT ![s][Len(ins[s])].st = out]
    /\ table' = IF out = "ok"
                THEN table \cup {[table |-> tableName(req[s].form), id |-> s,
                                  row |-> ins[s][Len(ins[s])].row]}
                ELSE table
    /\ IF InsertError(out)
       THEN /\ Fail(s, req[s].form, "insert", InsertFailure(req[s].form),
                    <<InsertErrorLine(req[s].form)>>, objects)
            /\ UNCHANGED mail
       ELSE /\ mail' = IF SendsEmail
                       THEN [mail EXCEPT ![s] = Append(@, [st |-> "inflight"])]
                       ELSE mail
            /\ IF SendsEmail /\ NotificationAwaited
               THEN /\ pc' = [pc EXCEPT ![s] = "send"]
                    /\ UNCHANGED resp
               ELSE /\ resp' = [resp EXCEPT ![s] =
                                    Append(@, SuccessResponse(req[s].form, savedData(s)))]
                    /\ pc' = [pc EXCEPT ![s] = "done"]
            /\ UNCHANGED <<caught, log, objects>>
    /\ UNCHANGED <<variant, apiKey, now, req, up>>

\* sgMail.send ends; without an API key the provider refuses the call.
SendDone(s, out) ==
    /\ pc[s] = "send"
    /\ apiKey \/ out = "fail"
    /\ mail' = [mail EXCEPT ![s][Len(mail[s])].st = out]
    /\ LET lines == IF out = "fail" THEN <<MailErrorLine>> ELSE <<>>
       IN IF enviarEmailBienvenida(out) = "throws"
          THEN Fail(s, req[s].form, "send",
                    [ise |-> FALSE, message |-> <<MailErrorStack>>], <<>>, objects)
          ELSE /\ resp' = [resp EXCEPT ![s] =
                               Append(@, SuccessResponse(req[s].form, savedData(s)))]
               /\ pc' = [pc EXCEPT ![s] = "done"]
               /\ log' = [log EXCEPT ![s] = @ \o lines]
               /\ UNCHANGED <<caught, objects>>
    /\ UNCHANGED <<variant, apiKey, now, req, up, ins, table>>

Receive(s, R) ==
    /\ pc[s] = "idle"
    /\ \E r \in R : \E ts \in Clocks(Cardinality(Slots(r))) : Procesar(s, r, ts)
Upload(s) == \E slot \in DOMAIN up[s], out \in UploadOutcomes : UploadDone(s, slot, out)
Insert(s) == \E out \in {"ok", "err"} : InsertDone(s, out)
Send(s) == \E out \in {"ok", "fail"} : SendDone(s, out)

\* One submission, any request.
Next ==
    \/ Receive(1, Requests)
    \/ Upload(1)
    \/ Insert(1)
    \/ Send(1)

Spec == Init /\ [][Next]_vars

\* Several submissions processed concurrently, small requests.
NextConc ==
    \/ \E s \in Subs : Receive(s, SmallRequests)
    \/ \E s \in Subs : Upload(s)
    \/ \E s \in Subs : Insert(s)
    \/ \E s \in Subs : Send(s)

SpecConc == Init /\ [][NextConc]_vars

\* Two submissions A = 1 and B = 2 processed concurrently.  Every external call
\* of B returns; those of A may never return.
Pair == {1, 2}
NextPair ==
    \/ \E s \in Pair : Receive(s, SmallRequests)
    \/ \E s \in Pair : Upload(s)
    \/ \E s \in Pair : Insert(s)
    \/ \E s \in Pair : Send(s)

SpecHang ==
    /\ Init /\ [][NextPair]_vars
    /\ WF_vars(Upload(2)) /\ WF_vars(Insert(2)) /\ WF_vars(Send(2))

\* Two submissions processed concurrently, every external call of which returns.
SpecReturns ==
    /\ Init /\ [][NextPair]_vars
    /\ \A s \in Pair : WF_vars(Upload(s)) /\ WF_vars(Insert(s)) /\ WF_vars(Send(s))
----------------------------------------------------------------------------
(* Properties *)

Groups(s) == Range(FileFields(req[s].form))
InsertCalled(s) == Len(ins[s]) > 0

\* C1: a submission one of whose uploads reported an error has no insert call
\* and no row, whatever the order in which its uploads ended.
AtomicPersistence ==
    \A s \in Subs :
        (\E slot \in DOMAIN up[s] : up[s][slot].st = "err")
            => /\ ~InsertCalled(s)
               /\ \A row \in table : row.id # s

\* C1 witness: answered, one upload failed after another one succeeded.
AtomicPersistenceReached ==
    \E s \in Subs :
        /\ pc[s] = "done"
        /\ \E a \in DOMAIN up[s], b \in DOMAIN up[s] :
                up[s][a].st = "err" /\ up[s][b].st = "ok"
        /\ ~InsertCalled(s)

\* C2: once the insert of a submission has been called, none of its uploads is
\* in flight.
UploadInsertBarrier ==
    \A s \in Subs :
        InsertCalled(s) => \A slot \in DOMAIN up[s] : up[s][slot].st # "inflight"

\* C2 witness: the insert was called for a submission with files in two groups.
UploadInsertBarrierReached ==
    \E s \in Subs :
        /\ InsertCalled(s)
        /\ \E a \in DOMAIN up[s], b \in DOMAIN up[s] : a[1] # b[1]

\* C3: a notification is sent only for a submission whose insert ended without
\* error and none of whose uploads reported an error.
NotificationOrdering ==
    \A s \in Subs :
        Len(mail[s]) > 0
            => /\ Len(ins[s]) = 1
               /\ ins[s][1].st = "ok"
               /\ \A slot \in DOMAIN up[s] : up[s][slot].st \notin {"err", "inflight"}

\* C3 witness: a notification was sent for a submission with a file.
NotificationOrderingReached ==
    \E s \in Subs : Len(mail[s]) > 0 /\ DOMAIN up[s] # {}

\* C4: once the send call has ended, with success or with failure, the caller
\* has the one success response carrying the saved row.
NotificationIsolation ==
    \A s \in Subs :
        (Len(mail[s]) > 0 /\ mail[s][Len(mail[s])].st # "inflight")
            => resp[s] = <<SuccessResponse(req[s].form, savedData(s))>>

\* C4 witness: the send call failed and the response is 201.
NotificationIsolationReached ==
    \E s \in Subs :
        /\ Len(mail[s]) > 0
        /\ mail[s][1].st = "fail"
        /\ resp[s] # <<>>
        /\ resp[s][1].status = CREATED

\* The row of the insert call has one <group>_urls list for each group with
\* files and for no other, as long as the group has files.
CompleteRecord(s) ==
    LET row == ins[s][1].row
        filled == {g \in Groups(s) : Len(req[s].files[g]) > 0}
    IN /\ DOMAIN row.urls = {<<g, "_urls">> : g \in filled}
       /\ \A g \in filled : Len(row.urls[<<g, "_urls">>]) = Len(req[s].files[g])

\* C5 as stated: no upload reported an error, so the row is complete.
CompleteRecordNoError ==
    \A s \in Subs :
        (InsertCalled(s) /\ \A slot \in DOMAIN up[s] : up[s][slot].st # "err")
            => CompleteRecord(s)

\* C5 amended: every upload returned data, so the row is complete.
CompleteRecordAllData ==
    \A s \in Subs :
        (InsertCalled(s) /\ \A slot \in DOMAIN up[s] : up[s][slot].st = "ok")
            => CompleteRecord(s)

\* C5 witness: a row was built from two files of one group, both with data.
CompleteRecordReached ==
    \E s \in Subs :
        /\ InsertCalled(s)
        /\ \E g \in Groups(s) : Len(req[s].files[g]) = 2
        /\ \A slot \in DOMAIN up[s] : up[s][slot].st = "ok"

\* C6: two files of one group of one submission never get the same key.
KeyUniqueInGroup ==
    \A s \in Subs : \A a \in DOMAIN up[s], b \in DOMAIN up[s] :
        (a # b /\ a[1] = b[1]) => up[s][a].key # up[s][b].key

\* C6 witness: two files of one group whose names differ, are sanitized to the
\* same string and got the same Date.now().
KeyUniqueInGroupReached ==
    \E s \in Subs : \E a \in DOMAIN up[s], b \in DOMAIN up[s] :
        /\ a # b /\ a[1] = b[1]
        /\ up[s][a].t = up[s][b].t
        /\ up[s][a].name # up[s][b].name
        /\ up[s][a].sent = up[s][b].sent

\* C7: two upload calls to one bucket never have the same key.
KeyUniqueAcrossSubmissions ==
    \A s1 \in Subs, s2 \in Subs : \A a \in DOMAIN up[s1], b \in DOMAIN up[s2] :
        (<<s1, a>> # <<s2, b>> /\ req[s1].form = req[s2].form)
            => up[s1][a].key # up[s2][b].key

\* C8: the file name put into a key by a sanitizing revision is left as it is
\* by a second sanitization.
SanitizationIdempotent ==
    \A s \in Subs : \A slot \in DOMAIN up[s] :
        Sanitizes => sanitizedFileName(up[s][slot].sent) = up[s][slot].sent

\* C8 witness: a file name that the sanitization changed.
SanitizationIdempotentReached ==
    \E s \in Subs : \E slot \in DOMAIN up[s] :
        Sanitizes /\ up[s][slot].sent # up[s][slot].name

\* C9: every key is public/{group}/{timestamp}-{index}-{sanitized name}, and
\* its file name segment holds only characters of [A-Za-z0-9.-_].
KeyConstruction ==
    \A s \in Subs : \A slot \in DOMAIN up[s] :
        /\ up[s][slot].key =
              <<"public/", slot[1], "/">> \o NumberToString(up[s][slot].t) \o <<"-">>
                \o NumberToString(slot[2] - 1) \o <<"-">> \o up[s][slot].sent
        /\ \A i \in 1..Len(up[s][slot].sent) :
              up[s][slot].sent[i] \notin {" ", "/", "ñ"}
        /\ Len(up[s][slot].sent) = Len(up[s][slot].name)
        /\ \A i \in 1..Len(up[s][slot].name) :
              up[s][slot].sent[i] =
                IF KeyChar(up[s][slot].name[i]) THEN up[s][slot].name[i] ELSE "_"

\* C10: the row's fondos_licitos is true exactly when the field is the string "on".
ConsentCoercion ==
    \A s \in Subs :
        InsertCalled(s)
            => (ins[s][1].row.fondos_licitos <=> req[s].fondos_licitos = Text("on"))

\* C10 witness: a row built from the field "on".
ConsentCoercionReached ==
    \E s \in Subs :
        /\ InsertCalled(s)
        /\ req[s].fondos_licitos = Text("on")
        /\ ins[s][1].row.fondos_licitos

\* The groups of submission s in which an upload has ended with an error.
FailingGroups(s) ==
    { g \in Groups(s) : \E i \in 1..Len(req[s].files[g]) : up[s][<<g, i>>].st = "err" }

\* The upload step of s has raised a failure on upload errors.
UploadFailureRaised(s) ==
    /\ caught[s] # <<>>
    /\ caught[s][1].stage = "uploads"
    /\ caught[s][1].error.ise

\* C11: when files fail to upload in one or more groups, the failure the upload
\* step raises names every failing group and carries the storage error messages.
AggregatedUploadFailure ==
    \A s \in Subs :
        UploadFailureRaised(s) =>
            /\ \A g \in FailingGroups(s) : g \in Range(caught[s][1].error.message)
            /\ StorageErrorMessage \in Range(caught[s][1].error.message)

\* C11 (amended): when the first group task to reject does so on upload errors,
\* the upload step raises a single failure, which names that one group only and
\* carries no storage error message; the messages are written to the log.
SingleGroupUploadFailure ==
    \A s \in Subs :
        UploadFailureRaised(s) =>
            /\ Len(caught[s]) = 1
            /\ \E g \in FailingGroups(s) :
                  /\ Settled(up[s], req[s], g)
                  /\ caught[s][1].error.message = <<"Fallo al subir archivos para: ", g>>
                  /\ \E i \in 1..Len(log[s]) :
                        /\ log[s][i][2] = g
                        /\ StorageErrorMessage \in Range(log[s][i])
            /\ StorageErrorMessage \notin Range(caught[s][1].error.message)

\* C11 witness: two groups have failed and the failure raised names one of them.
SingleGroupUploadFailureReached ==
    \E s \in Subs :
        /\ UploadFailureRaised(s)
        /\ Cardinality(FailingGroups(s)) = 2
        /\ \A g \in FailingGroups(s) : Settled(up[s], req[s], g)

\* C12: for both forms, a submission whose upload step failed on upload errors
\* is answered 500 with a message that names a failing field, and no insert is
\* called.
UploadFailureReporting ==
    \A s \in Subs :
        UploadFailureRaised(s) /\ resp[s] # <<>> =>
            /\ resp[s][1].status = INTERNAL_SERVER_ERROR
            /\ \E g \in FailingGroups(s) : g \in Range(resp[s][1].message)
            /\ ~InsertCalled(s)

\* The insert of s has reported an error.
InsertFailureRaised(s) ==
    /\ caught[s] # <<>>
    /\ caught[s][1].stage = "insert"

\* C13: for every form, the answer to a submission whose insert reported an
\* error differs from the answer to one whose upload step failed.
DistinguishableFailures ==
    \A s1, s2 \in Subs :
        /\ req[s1].form = req[s2].form
        /\ InsertFailureRaised(s1) /\ resp[s1] # <<>>
        /\ UploadFailureRaised(s2) /\ resp[s2] # <<>>
        => resp[s1][1] # resp[s2][1]

\* The messages the service builds for a failure that names no field.
FixedMessages ==
    { <<"No se pudo guardar el registro en la base de datos.">>,
      <<"No se pudo guardar la solicitud en la base de datos.">>,
      <<"Error al procesar el registro.">>,
      <<"Ocurrió un error inesperado al procesar la solicitud.">> }

\* The texts of the errors of storage, database, e-mail provider and runtime.
UnderlyingMessages ==
    {StorageErrorMessage, DatabaseErrorMessage, MailErrorStack, TypeErrorMessage}

\* C14: the message of every failure answer is one of the service's fixed
\* messages, or the fixed upload message with a field name of the form, and it
\* contains no text of an underlying error.
NoLeakage ==
    \A s \in Subs :
        resp[s] # <<>> /\ resp[s][1].status = INTERNAL_SERVER_ERROR =>
            /\ \/ resp[s][1].message \in FixedMessages
               \/ \E g \in Groups(s) :
                     resp[s][1].message = <<"Fallo al subir archivos para: ", g>>
            /\ \A t \in UnderlyingMessages : t \notin Range(resp[s][1].message)

\* C14 witness: a failure answer to a submission whose log holds the text of an
\* underlying error.
NoLeakageReached ==
    \E s \in Subs :
        /\ resp[s] # <<>> /\ resp[s][1].status = INTERNAL_SERVER_ERROR
        /\ \E i \in 1..Len(log[s]) : \E t \in UnderlyingMessages : t \in Range(log[s][i])

\* C15: a group with no items has no upload call and no `_urls` field in the
\* row, and no `_urls` field of a row holds an empty list.
EmptyGroupsOmitted ==
    \A s \in Subs :
        InsertCalled(s) =>
            LET urls == ins[s][1].row.urls
            IN /\ \A k \in DOMAIN urls : Len(urls[k]) > 0
               /\ \A g \in Groups(s) :
                     Len(req[s].files[g]) = 0 =>
                        /\ <<g, "_urls">> \notin DOMAIN urls
                        /\ \A slot \in DOMAIN up[s] : slot[1] # g

\* C15 witness: a row of a submission with an empty group and a group with files.
EmptyGroupsOmittedReached ==
    \E s \in Subs :
        /\ InsertCalled(s)
        /\ \E g \in Groups(s) : Len(req[s].files[g]) = 0
        /\ ins[s][1].row.urls # <<>>

\* The items of group g of submission s whose upload result carries data.
WithData(s, g) == { i \in 1..Len(req[s].files[g]) : up[s][<<g, i>>].st = "ok" }

\* C16: every element of every `_urls` list of a row is the public URL of an
\* upload of that group whose result carries data, and the list has one element
\* for each such upload: a result with neither data nor error adds nothing.
DefensiveUrlFilter ==
    \A s \in Subs :
        InsertCalled(s) =>
            LET urls == ins[s][1].row.urls
            IN \A k \in DOMAIN urls :
                  /\ \A n \in 1..Len(urls[k]) :
                        \E i \in WithData(s, k[1]) :
                           urls[k][n] = getPublicUrl(bucketName(req[s].form),
                                                     up[s][<<k[1], i>>].key)
                  /\ Len(urls[k]) = Cardinality(WithData(s, k[1]))

\* C16 witness: a row with a list of a group one of whose upload results had
\* neither data nor error.
DefensiveUrlFilterReached ==
    \E s \in Subs :
        /\ InsertCalled(s)
        /\ \E k \in DOMAIN ins[s][1].row.urls :
              \E i \in 1..Len(req[s].files[k[1]]) : up[s][<<k[1], i>>].st = "nodata"

\* The public URL of item i of group g of submission s.
UrlOf(s, g, i) == getPublicUrl(bucketName(req[s].form), up[s][<<g, i>>].key)

\* C17: in each `_urls` list of a row, the URLs stand in the order in which the
\* uploads of the group ended.
UrlOrderIsCompletionOrder ==
    \A s \in Subs :
        InsertCalled(s) =>
            LET urls == ins[s][1].row.urls
            IN \A k \in DOMAIN urls : \A m, n \in 1..Len(urls[k]) :
                  \A i, j \in WithData(s, k[1]) :
                     /\ m < n
                     /\ urls[k][m] = UrlOf(s, k[1], i)
                     /\ urls[k][n] = UrlOf(s, k[1], j)
                     => up[s][<<k[1], i>>].end < up[s][<<k[1], j>>].end

\* C17 (amended): in each `_urls` list of a row, the URLs stand in the order of
\* the files in the group of the request, in whatever order the uploads ended.
UrlOrderIsFileOrder ==
    \A s \in Subs :
        InsertCalled(s) =>
            LET urls == ins[s][1].row.urls
            IN \A k \in DOMAIN urls : \A m, n \in 1..Len(urls[k]) :
                  \A i, j \in WithData(s, k[1]) :
                     /\ m < n
                     /\ urls[k][m] = UrlOf(s, k[1], i)
                     /\ urls[k][n] = UrlOf(s, k[1], j)
                     => i < j

\* C17 witness: a row with a list of two URLs whose second upload ended first.
UrlOrderIsFileOrderReached ==
    \E s \in Subs :
        /\ InsertCalled(s)
        /\ \E k \in DOMAIN ins[s][1].row.urls :
              /\ Len(ins[s][1].row.urls[k]) = 2
              /\ \E i, j \in WithData(s, k[1]) :
                    i < j /\ up[s][<<k[1], j>>].end < up[s][<<k[1], i>>].end

\* C18: no upload is issued with upsert, and the object of every upload that
\* succeeded is in the bucket as that upload wrote it, also after the
\* submission has failed.
NoRollbackOfBlobs ==
    \A s \in Subs : \A slot \in DOMAIN up[s] :
        /\ ~up[s][slot].upsert
        /\ up[s][slot].st = "ok" =>
              [bucket |-> bucketName(req[s].form), key |-> up[s][slot].key,
               by |-> <<s, slot>>] \in objects

\* C18 witness: a submission answered with a failure one of whose uploads had
\* succeeded.
NoRollbackOfBlobsReached ==
    \E s \in Subs :
        /\ resp[s] # <<>> /\ resp[s][1].status = INTERNAL_SERVER_ERROR
        /\ \E slot \in DOMAIN up[s] : up[s][slot].st = "ok"

\* One step leaves submission s with at most one insert call, at most one send
\* call and at most one upload call for each file, and does not issue again an
\* upload call that has ended.
NoRetryStep(s) ==
    /\ Len(ins'[s]) <= 1
    /\ Len(mail'[s]) <= 1
    /\ req'[s].form # "none" =>
          Cardinality(DOMAIN up'[s]) <=
             SumLen(req'[s].files, FileFields(req'[s].form),
                    Len(FileFields(req'[s].form)))
    /\ \A slot \in DOMAIN up[s] :
          /\ slot \in DOMAIN up'[s]
          /\ up[s][slot].st # "inflight" => up'[s][slot] = up[s][slot]

\* C19: a submission has at most one upload call for each file item, at most
\* one insert call and at most one send call; no call is issued again.
NoRetry == [][\A s \in Subs : NoRetryStep(s)]_vars

\* C19 witness: a submission answered after an upload, the insert and a send
\* that failed.
NoRetryReached ==
    \E s \in Subs :
        /\ pc[s] = "done"
        /\ up[s] # <<>>
        /\ Len(ins[s]) = 1
        /\ Len(mail[s]) = 1 /\ mail[s][1].st = "fail"

\* The failure submission s was answered with was raised by a call of s itself.
OwnFailure(s) ==
    /\ Len(caught[s]) = 1
    /\ caught[s][1].stage = "keys" => ~req[s].hasFiles
    /\ caught[s][1].stage = "uploads" =>
          \E slot \in DOMAIN up[s] : up[s][slot].st \in {"err", "nodata"}
    /\ caught[s][1].stage = "insert" => ins[s][1].st = "err"
    /\ caught[s][1].stage \in {"keys", "uploads", "insert"}

\* C20: with submissions in progress together, the row of each is built from
\* its own request and the URLs of its own uploads, and its answer follows from
\* its own calls: success with its own row if and only if its own insert
\* succeeded, a failure only for a failure of its own.
SubmissionIsolation ==
    \A s \in Subs :
        /\ InsertCalled(s) =>
              /\ ins[s][1].row = dataToInsert(req[s], up[s])
              /\ \A k \in DOMAIN ins[s][1].row.urls :
                    \A n \in 1..Len(ins[s][1].row.urls[k]) :
                       \E i \in 1..Len(req[s].files[k[1]]) :
                          ins[s][1].row.urls[k][n] = UrlOf(s, k[1], i)
        /\ resp[s] # <<>> =>
              IF InsertCalled(s) /\ ins[s][1].st = "ok"
              THEN resp[s][1] = SuccessResponse(req[s].form,
                                                [id |-> s, row |-> ins[s][1].row])
              ELSE resp[s][1].status = INTERNAL_SERVER_ERROR /\ OwnFailure(s)
        /\ \A t \in table : t.id = s => t.row = ins[s][1].row /\ ins[s][1].st = "ok"

\* C20 witness: two submissions answered, one with a failure and one with
\* success and a row that holds a URL.
SubmissionIsolationReached ==
    \E s1, s2 \in Subs :
        /\ resp[s1] # <<>> /\ resp[s1][1].status = INTERNAL_SERVER_ERROR
        /\ resp[s2] # <<>> /\ resp[s2][1].status = CREATED
        /\ resp[s2][1].data.row.urls # <<>>
        /\ \E slot \in DOMAIN up[s1] : up[s1][slot].st # "inflight"

\* C21: a submission gets at most one answer, which is either 201 with a
\* message and the row its insert saved, the insert having ended without error,
\* or 500 with a message of one or two parts and nothing else, no row of the
\* submission being in the table.
OutcomeDichotomy ==
    \A s \in Subs :
        /\ Len(resp[s]) <= 1
        /\ resp[s] # <<>> =>
              \/ /\ resp[s][1].status = CREATED
                 /\ DOMAIN resp[s][1] = {"status", "message", "data"}
                 /\ resp[s][1].message = SuccessMessage(req[s].form)
                 /\ Len(ins[s]) = 1 /\ ins[s][1].st = "ok"
                 /\ resp[s][1].data.row = ins[s][1].row
                 /\ \E t \in table : t.id = resp[s][1].data.id /\ t.row = resp[s][1].data.row
              \/ /\ resp[s][1].status = INTERNAL_SERVER_ERROR
                 /\ DOMAIN resp[s][1] = {"status", "message"}
                 /\ Len(resp[s][1].message) \in {1, 2}
                 /\ \A t \in table : t.id # s

\* C21 witness: a submission with a file answered 201 with its row.
OutcomeDichotomyReached ==
    \E s \in Subs :
        /\ resp[s] # <<>> /\ resp[s][1].status = CREATED
        /\ resp[s][1].data.row.urls # <<>>

\* Submission s carries no file at all.
NoFilesAtAll(s) ==
    \/ ~req[s].hasFiles
    \/ \A g \in Groups(s) : Len(req[s].files[g]) = 0

\* C22: a KYC submission without any file, its files argument an empty mapping
\* or undefined, issues no upload call, inserts a row without `_urls` field and
\* is answered 201 unless its insert reports an error.
SubmissionWithoutFiles ==
    \A s \in Subs :
        req[s].form = "kyc" /\ NoFilesAtAll(s) =>
            /\ up[s] = <<>>
            /\ InsertCalled(s) => ins[s][1].row.urls = <<>>
            /\ resp[s] # <<>> /\ ~(InsertCalled(s) /\ ins[s][1].st = "err")
                  => resp[s][1].status = CREATED

\* C23: without SENDGRID_API_KEY no send call is made to the e-mail provider,
\* and a submission whose insert succeeded is still answered 201.
EmailDisabledWithoutKey ==
    \A s \in Subs :
        ~apiKey =>
            /\ mail[s] = <<>>
            /\ resp[s] # <<>> /\ InsertCalled(s) /\ ins[s][1].st = "ok"
                  => resp[s][1].status = CREATED

\* C24: from the step in which the processor of a submission starts to wait,
\* the upload call of every file of every group has been issued: it is in
\* flight or has ended, whatever the other calls of the submission have done.
FullFanOut ==
    \A s \in Subs :
        pc[s] # "idle" /\ req[s].hasFiles =>
            \A g \in Groups(s) : \A i \in 1..Len(req[s].files[g]) :
                /\ <<g, i>> \in DOMAIN up[s]
                /\ up[s][<<g, i>>].st \in {"inflight"} \cup UploadOutcomes

\* C24 witness: the processor waits with two upload calls in flight and none
\* ended.
FullFanOutReached ==
    \E s \in Subs :
        /\ pc[s] = "uploads"
        /\ Cardinality(DOMAIN up[s]) = 2
        /\ \A slot \in DOMAIN up[s] : up[s][slot].st = "inflight"

\* C25: submission B, every external call of which returns, is answered after
\* it was received, whether or not the calls of submission A return.
HungCallBlocksOnlyOwn == (pc[2] # "idle") ~> (resp[2] # <<>>)

\* C25 witness: B is answered while an upload call of A, received before B and
\* not answered, is in flight.
HungCallBlocksOnlyOwnReached ==
    /\ resp[2] # <<>>
    /\ pc[1] = "uploads" /\ resp[1] = <<>>
    /\ \E slot \in DOMAIN up[1] : up[1][slot].st = "inflight"

\* C26: when every upload of a group has ended with data, the i-th URL of the
\* group's list in the row is the public URL of the key built for the i-th file
\* of the group, with index i - 1, in whatever order the uploads ended.
IndexAlignedUrls ==
    \A s \in Subs :
        InsertCalled(s) =>
            \A g \in Groups(s) :
                (Len(req[s].files[g]) > 0 /\ WithData(s, g) = 1..Len(req[s].files[g])) =>
                    /\ <<g, "_urls">> \in DOMAIN ins[s][1].row.urls
                    /\ Len(ins[s][1].row.urls[<<g, "_urls">>]) = Len(req[s].files[g])
                    /\ \A i \in 1..Len(req[s].files[g]) :
                          ins[s][1].row.urls[<<g, "_urls">>][i] =
                             getPublicUrl(bucketName(req[s].form),
                                          filePath(g, up[s][<<g, i>>].t, i - 1,
                                                   up[s][<<g, i>>].sent))

\* C26 witness: a row with the list of a group of two files, both uploaded with
\* data, the second before the first.
IndexAlignedUrlsReached ==
    \E s \in Subs : \E g \in Groups(s) :
        /\ InsertCalled(s)
        /\ Len(req[s].files[g]) = 2
        /\ up[s][<<g, 2>>].end = 1 /\ up[s][<<g, 1>>].end = 2

\* The upload calls u without the order in which they ended.
Unordered(u) == [slot \in DOMAIN u |-> [u[slot] EXCEPT !.end = 0]]

\* C27: the row passed to the insert is the row built from the request, the
\* keys and the results of the uploads alone: the order in which the uploads
\* ended has no part in it.
InterleavingIndependentRow ==
    \A s \in Subs :
        InsertCalled(s) => ins[s][1].row = dataToInsert(req[s], Unordered(up[s]))

\* C27 witness: a submission answered 201 whose two uploads with data ended in
\* the reverse of the order of their files.
InterleavingIndependentRowReached ==
    \E s \in Subs : \E a, b \in DOMAIN up[s] :
        /\ resp[s] # <<>> /\ resp[s][1].status = CREATED
        /\ a[1] = b[1] /\ a[2] < b[2]
        /\ up[s][b].end = 1 /\ up[s][a].end = 2

\* C28: once a submission is answered with an upload failure, none of its
\* upload calls is in flight.
NoUploadOutlivesErrorResponse ==
    \A s \in Subs :
        UploadFailureRaised(s) /\ resp[s] # <<>> =>
            \A slot \in DOMAIN up[s] : up[s][slot].st # "inflight"

\* C28 (amended): once a submission is answered with an upload failure, none of
\* the upload calls of the group the failure names is in flight.
FailingGroupEndedAtErrorResponse ==
    \A s \in Subs :
        UploadFailureRaised(s) /\ resp[s] # <<>> =>
            /\ Len(caught[s][1].error.message) = 2
            /\ \A slot \in DOMAIN up[s] :
                  slot[1] = caught[s][1].error.message[2] => up[s][slot].st # "inflight"

\* C28 witness: a submission answered with the upload failure of one group
\* while an upload call of its other group is in flight.
FailingGroupEndedAtErrorResponseReached ==
    \E s \in Subs :
        /\ UploadFailureRaised(s) /\ resp[s] # <<>>
        /\ \E slot \in DOMAIN up[s] :
              slot[1] # caught[s][1].error.message[2] /\ up[s][slot].st = "inflight"

\* C29: where the revision sends a notification, a submission is answered 201
\* only once its send call has ended; a submission gets at most one answer, and
\* when every external call returns, a submission received is answered.
ResponseAfterNotification ==
    /\ [](\A s \in Subs :
            /\ Len(resp[s]) <= 1
            /\ (resp[s] # <<>> /\ resp[s][1].status = CREATED /\ SendsEmail) =>
                  Len(mail[s]) = 1 /\ mail[s][1].st # "inflight")
    /\ \A s \in Pair : (pc[s] # "idle") ~> (Len(resp[s]) = 1)

\* C29 witness: a submission answered 201 after its send call ended with a
\* failure, which was logged.
ResponseAfterNotificationReached ==
    \E s \in Subs :
        /\ resp[s] # <<>> /\ resp[s][1].status = CREATED
        /\ Len(mail[s]) = 1 /\ mail[s][1].st = "fail"
        /\ \E i \in 1..Len(log[s]) : log[s][i] = MailErrorLine
====
